---- MODULE Spec2Model ----
(***************************************************************************)
(* Admin authorization and audit engine of payeasy:                        *)
(*   lib/types/roles.ts, lib/auth/roles.ts (permission matrix, context     *)
(*   builder, hierarchy guard), the role-management routes                 *)
(*   /api/admin/roles (POST) and /api/admin/roles/[id] (PATCH, DELETE),    *)
(*   and the admin_users / role_audits tables with their audit trigger.    *)
(***************************************************************************)
EXTENDS Integers, Sequences, FiniteSets, TLC

(***************************************************************************)
(* Bounds of the model                                                     *)
(***************************************************************************)
\* number of admin_users ids gen_random_uuid() may hand out
MaxId == 2
\* number of role_audits rows ever inserted
MaxAudits == 3
\* largest value of NOW()
MaxClock == 1

(***************************************************************************)
(* Values                                                                  *)
(***************************************************************************)
Null == "null"
Undefined == "undefined"

\* rows of the users table (identities); GhostUser is an id with no row
Users == {"u1", "u2"}
GhostUser == "ghost"
\* "no bearer token / token that getUser rejects"
Anonymous == "anonymous"

AdminRole == {"super_admin", "moderator", "support", "analyst", "custom"}
AdminStatus == {"active", "inactive", "suspended"}

PermissionKey ==
  { "users.view", "users.edit", "users.suspend", "users.delete", "users.assign_role",
    "listings.view", "listings.edit", "listings.delete", "listings.publish",
    "listings.unpublish",
    "disputes.view", "disputes.resolve", "disputes.appeal",
    "support.manage_tickets", "support.respond",
    "reports.view", "reports.generate", "reports.export",
    "payments.view", "payments.refund", "payments.manage_fees",
    "settings.admin", "settings.system", "audit.view", "audit.export",
    "roles.view", "roles.create", "roles.edit", "roles.delete" }

ROLE_PERMISSIONS_no_assign_role ==
  [ super_admin |->
      << "users.view", "users.edit", "users.suspend", "users.delete",
         "listings.view", "listings.edit", "listings.delete", "listings.publish",
         "listings.unpublish",
         "disputes.view", "disputes.resolve", "disputes.appeal",
         "support.manage_tickets", "support.respond",
         "reports.view", "reports.generate", "reports.export",
         "payments.view", "payments.refund", "payments.manage_fees",
         "settings.admin", "settings.system", "audit.view", "audit.export",
         "roles.view", "roles.create", "roles.edit", "roles.delete" >>,
    moderator |->
      << "users.view", "users.edit", "users.suspend",
         "listings.view", "listings.edit", "listings.delete", "listings.publish",
         "listings.unpublish",
         "disputes.view", "disputes.resolve",
         "support.manage_tickets", "support.respond",
         "reports.view", "audit.view", "roles.view" >>,
    support |->
      << "users.view", "disputes.view", "disputes.resolve",
         "support.manage_tickets", "support.respond",
         "reports.view", "audit.view" >>,
    analyst |->
      << "users.view", "listings.view", "disputes.view",
         "reports.view", "reports.generate", "reports.export",
         "audit.view", "roles.view" >>,
    custom |-> << >> ]

ROLE_PERMISSIONS ==
  [ super_admin |->
      << "users.view", "users.edit", "users.suspend", "users.delete", "users.assign_role",
         "listings.view", "listings.edit", "listings.delete", "listings.publish",
         "listings.unpublish",
         "disputes.view", "disputes.resolve", "disputes.appeal",
         "support.manage_tickets", "support.respond",
         "reports.view", "reports.generate", "reports.export",
         "payments.view", "payments.refund", "payments.manage_fees",
         "settings.admin", "settings.system", "audit.view", "audit.export",
         "roles.view", "roles.create", "roles.edit", "roles.delete" >>,
    moderator |->
      << "users.view", "users.edit", "users.suspend",
         "listings.view", "listings.edit", "listings.delete", "listings.publish",
         "listings.unpublish",
         "disputes.view", "disputes.resolve",
         "support.manage_tickets", "support.respond",
         "reports.view", "audit.view", "roles.view" >>,
    support |->
      << "users.view", "disputes.view", "disputes.resolve",
         "support.manage_tickets", "support.respond",
         "reports.view", "audit.view" >>,
    analyst |->
      << "users.view", "listings.view", "disputes.view",
         "reports.view", "reports.generate", "reports.export",
         "audit.view", "roles.view" >>,
    custom |-> << >> ]

(***************************************************************************)
(* A nullable / optional PermissionKey[]: kind is "array", "null" or       *)
(* "undefined"; arr is the array (empty unless kind = "array").            *)
(***************************************************************************)
PermArray(a) == [kind |-> "array", arr |-> a]
PermNull == [kind |-> Null, arr |-> << >>]
PermUndefined == [kind |-> Undefined, arr |-> << >>]

\* JavaScript truthiness of an optional array: [] is truthy, null/undefined are not
Truthy(cp) == cp.kind = "array"

\* Array.prototype.includes
Includes(arr, x) == \E i \in DOMAIN arr : arr[i] = x

(***************************************************************************)
(* lib/auth/roles.ts                                                       *)
(***************************************************************************)
hasPermission(context, permission) == Includes(context.permissions, permission)

hasAllPermissions(context, permissions) ==
  \A i \in DOMAIN permissions : hasPermission(context, permissions[i])

hasAnyPermission(context, permissions) ==
  \E i \in DOMAIN permissions : hasPermission(context, permissions[i])

getRolePermissionsAnyRole(role, customPermissions) ==
  LET basePermissions == IF role \in DOMAIN ROLE_PERMISSIONS
                         THEN ROLE_PERMISSIONS[role] ELSE << >>
  IN IF Truthy(customPermissions)
     THEN customPermissions.arr
     ELSE basePermissions

getRolePermissions(role, customPermissions) ==
  LET basePermissions == IF role \in DOMAIN ROLE_PERMISSIONS
                         THEN ROLE_PERMISSIONS[role] ELSE << >>
  IN IF role = "custom" /\ Truthy(customPermissions)
     THEN customPermissions.arr
     ELSE basePermissions

createAuthorizationContext(admin) ==
  [ user_id |-> admin.user_id,
    admin_id |-> admin.id,
    role |-> admin.role,
    permissions |-> getRolePermissions(admin.role, admin.custom_permissions),
    is_admin |-> admin.status = "active",
    is_super_admin |-> admin.role = "super_admin" /\ admin.status = "active" ]

ROLE_HIERARCHY ==
  [ super_admin |-> 100, moderator |-> 60, support |-> 40, analyst |-> 20, custom |-> 30 ]

\* ROLE_HIERARCHY[role] ?? 0
RoleLevel(role) == IF role \in DOMAIN ROLE_HIERARCHY THEN ROLE_HIERARCHY[role] ELSE 0

canManageRoleNoStrict(manager_role, target_role) ==
  IF manager_role = "super_admin" THEN TRUE
  ELSE RoleLevel(manager_role) >= RoleLevel(target_role)

canManageRole(manager_role, target_role) ==
  IF manager_role = "super_admin" THEN TRUE
  ELSE RoleLevel(manager_role) > RoleLevel(target_role)

validateRoleAssignmentNoPermission(assigner_context, target_role) ==
  IF assigner_context.role = Undefined THEN FALSE
  ELSE canManageRole(assigner_context.role, target_role)

validateRoleAssignment(assigner_context, target_role) ==
  IF ~hasPermission(assigner_context, "users.assign_role") THEN FALSE
  ELSE IF assigner_context.role = Undefined THEN FALSE
  ELSE canManageRole(assigner_context.role, target_role)

permissionDeniedError(permission) ==
  [ error |-> "PERMISSION_DENIED", status |-> 403, permission |-> permission ]

adminAccessRequiredError ==
  [ error |-> "ADMIN_ACCESS_REQUIRED", status |-> 403, permission |-> Undefined ]


(***************************************************************************)
(* State                                                                   *)
(***************************************************************************)
VARIABLES
  admin_users,    \* table admin_users: a set of rows
  role_audits,    \* table role_audits: rows in insertion order
  next_id,        \* next admin_users.id that gen_random_uuid() yields
  audit_seq,      \* number of role_audits rows inserted so far (their ids)
  audit_enabled,  \* the setting app.audit_enabled is not 'false' (fixed per run)
  clock,          \* NOW()
  last,           \* the request served last (handler, caller, body.role) and its response
  lib_admin,      \* library calls: the AdminUser argument
  lib_ctx,        \* library calls: the AuthorizationContext argument / result
  lib_out,        \* library calls: the last call and its result
  auth,           \* middleware calls: the last call and its AuthorizationResult
  reqs,           \* requests in flight: each one's position and what it read
  listing         \* the audit-log listing served last: its query and its response

dbvars == <<admin_users, role_audits, next_id, audit_seq>>
envvars == <<audit_enabled, clock>>
libvars == <<lib_admin, lib_ctx, lib_out>>
authvars == <<auth>>
racevars == <<reqs>>
listvars == <<listing>>
vars == <<admin_users, role_audits, next_id, audit_seq, audit_enabled, clock,
          last, lib_admin, lib_ctx, lib_out, auth, reqs, listing>>

(***************************************************************************)
(* supabase/migrations/20260225_create_admin_rbac.sql                      *)
(***************************************************************************)
\* the absent row (OLD on INSERT, NEW on DELETE): every column is NULL
NullRow ==
  [ id |-> 0, user_id |-> Null, role |-> Null, custom_permissions |-> PermNull,
    status |-> Null, assigned_by |-> Null ]

admin_users_check_no_role_check(row) ==
  /\ row.user_id \in Users
  /\ row.role \in AdminRole
  /\ row.status \in AdminStatus
  /\ row.assigned_by \in Users

\* CREATE TABLE admin_users: column and table constraints on one row
admin_users_check(row) ==
  /\ row.user_id \in Users
  /\ row.role \in AdminRole
  /\ row.status \in AdminStatus
  /\ row.assigned_by \in Users
  /\ (row.role # "custom") \/ (row.custom_permissions.kind # Null)

\* user_id UUID NOT NULL UNIQUE
admin_users_unique(rows) ==
  \A a, b \in rows : a.user_id = b.user_id => a = b

\* audit_role_change(): the action type
action_type(TG_OP, OLD_ROW, NEW_ROW) ==
  IF TG_OP = "INSERT" THEN "created"
  ELSE IF TG_OP = "UPDATE" THEN
    IF OLD_ROW.status = "suspended" /\ NEW_ROW.status = "active" THEN "reactivated"
    ELSE IF NEW_ROW.status = "suspended" /\ OLD_ROW.status # "suspended" THEN "suspended"
    ELSE IF NEW_ROW.role # OLD_ROW.role THEN "updated"
    ELSE "updated"
  ELSE "deleted"

\* audit_role_change(): the row it inserts into role_audits
audit_row(TG_OP, OLD_ROW, NEW_ROW, uid) ==
  [ id |-> audit_seq + 1,
    admin_user_id |-> IF NEW_ROW.id # 0 THEN NEW_ROW.id ELSE OLD_ROW.id,
    action |-> action_type(TG_OP, OLD_ROW, NEW_ROW),
    old_role |-> OLD_ROW.role,
    new_role |-> NEW_ROW.role,
    old_permissions |-> OLD_ROW.custom_permissions,
    new_permissions |-> NEW_ROW.custom_permissions,
    changed_by |-> uid,
    reason |-> Null,
    timestamp |-> clock ]

\* CREATE TABLE role_audits: constraints on an inserted row, given the
\* admin_users rows at the end of the statement
role_audits_check(row, admins) ==
  /\ \E a \in admins : a.id = row.admin_user_id
  /\ row.changed_by \in Users

\* ON DELETE CASCADE of role_audits.admin_user_id
RECURSIVE cascade_delete(_, _)
cascade_delete(audits, id) ==
  IF audits = << >> THEN << >>
  ELSE IF Head(audits).admin_user_id = id
       THEN cascade_delete(Tail(audits), id)
       ELSE <<Head(audits)>> \o cascade_delete(Tail(audits), id)

\* trigger audit_role_changes, AFTER INSERT OR UPDATE OR DELETE, in the
\* statement's transaction.  admins, audits: the tables after the statement's
\* own change.  ok = FALSE aborts the statement.
audit_role_change(TG_OP, OLD_ROW, NEW_ROW, uid, admins, audits) ==
  IF audit_enabled
  THEN LET row == audit_row(TG_OP, OLD_ROW, NEW_ROW, uid)
       IN IF role_audits_check(row, admins)
          THEN [ok |-> TRUE, audits |-> Append(audits, row), logged |-> TRUE]
          ELSE [ok |-> FALSE, audits |-> audits, logged |-> FALSE]
  ELSE [ok |-> TRUE, audits |-> audits, logged |-> FALSE]

\* result of a statement on admin_users
Failed == [ok |-> FALSE, admins |-> admin_users, audits |-> role_audits,
           logged |-> FALSE, rows |-> 0]

db_insert_no_unique(row, uid) ==
  LET admins == admin_users \cup {row}
  IN IF ~admin_users_check(row) THEN Failed
     ELSE LET t == audit_role_change("INSERT", NullRow, row, uid, admins, role_audits)
          IN IF ~t.ok THEN Failed
             ELSE [ok |-> TRUE, admins |-> admins, audits |-> t.audits,
                   logged |-> t.logged, rows |-> 1]

\* INSERT INTO admin_users
db_insert(row, uid) ==
  LET admins == admin_users \cup {row}
  IN IF ~admin_users_check(row) \/ ~admin_users_unique(admins) THEN Failed
     ELSE LET t == audit_role_change("INSERT", NullRow, row, uid, admins, role_audits)
          IN IF ~t.ok THEN Failed
             ELSE [ok |-> TRUE, admins |-> admins, audits |-> t.audits,
                   logged |-> t.logged, rows |-> 1]

db_update_no_rollback(old, new, uid) ==
  LET admins == (admin_users \ {old}) \cup {new}
  IN IF ~admin_users_check(new) \/ ~admin_users_unique(admins) THEN Failed
     ELSE LET t == audit_role_change("UPDATE", old, new, uid, admins, role_audits)
          IN [ok |-> TRUE, admins |-> admins, audits |-> t.audits,
              logged |-> t.logged, rows |-> 1]

\* UPDATE admin_users SET ... WHERE id = old.id
db_update(old, new, uid) ==
  LET admins == (admin_users \ {old}) \cup {new}
  IN IF ~admin_users_check(new) \/ ~admin_users_unique(admins) THEN Failed
     ELSE LET t == audit_role_change("UPDATE", old, new, uid, admins, role_audits)
          IN IF ~t.ok THEN Failed
             ELSE [ok |-> TRUE, admins |-> admins, audits |-> t.audits,
                   logged |-> t.logged, rows |-> 1]

\* DELETE FROM admin_users WHERE id = old.id
db_delete(old, uid) ==
  LET admins == admin_users \ {old}
      kept == cascade_delete(role_audits, old.id)
      t == audit_role_change("DELETE", old, NullRow, uid, admins, kept)
  IN IF ~t.ok THEN Failed
     ELSE [ok |-> TRUE, admins |-> admins, audits |-> t.audits,
           logged |-> t.logged, rows |-> 1]

\* auth.uid() of the session that runs a statement; the trigger evaluates
\* it only when it inserts
AuthUids == IF audit_enabled THEN Users \cup {Null} ELSE {Null}


(***************************************************************************)
(* Requests                                                                *)
(***************************************************************************)
\* request bodies: a field that is absent is Undefined
EmptyBody ==
  [ user_id |-> Undefined, role |-> Undefined, custom_permissions |-> PermUndefined,
    status |-> Undefined, reason |-> Undefined ]

\* inputs the requests are drawn from
Actors == Users \cup {Anonymous}
TargetIds == 1 .. MaxId
Body(user_id, role, custom_permissions, status, reason) ==
  [ user_id |-> user_id, role |-> role, custom_permissions |-> custom_permissions,
    status |-> status, reason |-> reason ]

AssignOnly == PermArray(<<"users.assign_role">>)

\* a custom_permissions value with a string that is no PermissionKey
OffCatalog == PermArray(<<"system.root">>)

\* the (role, custom_permissions, reason) parts of the POST bodies
PostRoleInputs ==
  { <<Undefined, PermUndefined, Undefined>>,
    <<"bogus", PermUndefined, Undefined>>,
    <<"super_admin", PermUndefined, "policy">>,
    <<"moderator", PermUndefined, Undefined>>,
    <<"moderator", AssignOnly, Undefined>>,
    <<"custom", PermUndefined, Undefined>>,
    <<"custom", AssignOnly, "policy">> }
UserIdInputs == Users \cup {GhostUser, Undefined}

PostBodies ==
  { Body(u, x[1], x[2], Undefined, x[3]) : u \in UserIdInputs, x \in PostRoleInputs }

PatchBodies ==
  { EmptyBody,
    Body(Undefined, "bogus", PermUndefined, Undefined, Undefined),
    Body(Undefined, Undefined, PermUndefined, "bogus", Undefined),
    Body(Undefined, "moderator", PermUndefined, Undefined, "policy"),
    Body(Undefined, "super_admin", PermUndefined, Undefined, Undefined),
    Body(Undefined, "custom", PermUndefined, Undefined, Undefined),
    Body(Undefined, "custom", AssignOnly, Undefined, Undefined),
    Body(Undefined, Undefined, PermNull, Undefined, Undefined),
    Body(Undefined, Undefined, PermUndefined, "suspended", "policy"),
    Body(Undefined, Undefined, PermUndefined, "inactive", Undefined),
    Body(Undefined, Undefined, PermUndefined, "active", Undefined),
    Body(Undefined, "moderator", PermUndefined, "suspended", Undefined) }

\* NextResponse.json(...): status, error; permission is the key a
\* permissionDeniedError names
Response(status, error) ==
  [status |-> status, error |-> error, permission |-> Undefined]

NoResponse == [handler |-> "none", actor |-> Anonymous, role |-> Undefined,
               status |-> 0, error |-> "", permission |-> Undefined,
               validated |-> FALSE]

\* .from('admin_users').select('*').eq('user_id', id).eq('status','active').single()
ActiveAdminOf(user) ==
  {a \in admin_users : a.user_id = user /\ a.status = "active"}

\* .from('admin_users').select('*').eq('id', id).single()
AdminById(id) == {a \in admin_users : a.id = id}

\* a statement that writes role_audits may run only while ids are left
AuditRoom == ~audit_enabled \/ audit_seq < MaxAudits

\* the outcome of a handler: the response and the tables it leaves.
\* validated: the handler called validateRoleAssignment and it returned true;
\* the routes import validateRoleAssignment and never call it
Outcome(resp, res) ==
  [resp |-> resp, admins |-> res.admins, audits |-> res.audits, logged |-> res.logged,
   inserted |-> FALSE, validated |-> FALSE]

NoWrite == [ok |-> TRUE, admins |-> admin_users, audits |-> role_audits,
            logged |-> FALSE, rows |-> 0]

Serve(handler, actor, role, out) ==
  /\ admin_users' = out.admins
  /\ role_audits' = out.audits
  /\ audit_seq' = IF out.logged THEN audit_seq + 1 ELSE audit_seq
  /\ next_id' = IF out.inserted THEN next_id + 1 ELSE next_id
  /\ last' = [handler |-> handler, actor |-> actor, role |-> role,
              status |-> out.resp.status, error |-> out.resp.error,
              permission |-> out.resp.permission,
              validated |-> out.validated]
  /\ UNCHANGED <<envvars, libvars, authvars, racevars, listvars>>

(***************************************************************************)
(* POST /api/admin/roles                                                   *)
(***************************************************************************)
\* !currentAdmin || currentAdmin.role !== 'super_admin'
post_denied_any_admin(actor) == ActiveAdminOf(actor) = {}

post_denied(actor) ==
  \A a \in ActiveAdminOf(actor) : a.role # "super_admin"

\* the row POST inserts
post_row(body, actor) ==
  [ id |-> next_id,
    user_id |-> body.user_id,
    role |-> body.role,
    custom_permissions |->
      IF body.role = "custom" /\ Truthy(body.custom_permissions)
      THEN body.custom_permissions ELSE PermNull,
    status |-> "active",
    assigned_by |-> actor ]

\* the checks before the insert; status 0: none of them answered
post_checks(actor, body) ==
  IF actor = Anonymous
  THEN adminAccessRequiredError
  ELSE IF post_denied(actor)
  THEN permissionDeniedError("users.assign_role")
  ELSE IF body.user_id = Undefined \/ body.role = Undefined
  THEN Response(400, "Missing required fields: user_id, role")
  ELSE IF body.role \notin AdminRole
  THEN Response(400, "Invalid role")
  ELSE IF body.user_id \notin Users
  THEN Response(404, "User not found")
  ELSE IF \E a \in admin_users : a.user_id = body.user_id
  THEN Response(400, "User is already an admin")
  ELSE Response(0, "")

\* the insert and its response
post_insert(actor, body, uid) ==
  LET res == db_insert(post_row(body, actor), uid)
  IN IF res.ok
     THEN [Outcome(Response(201, ""), res) EXCEPT !.inserted = TRUE]
     ELSE Outcome(Response(500, "Failed to assign role"), res)

POST(actor, body) ==
  /\ next_id <= MaxId /\ AuditRoom
  /\ LET checked == post_checks(actor, body)
     IN IF checked.status # 0
        THEN Serve("POST", actor, body.role, Outcome(checked, NoWrite))
        ELSE \E uid \in AuthUids : Serve("POST", actor, body.role, post_insert(actor, body, uid))

(***************************************************************************)
(* PATCH /api/admin/roles/[id]                                             *)
(***************************************************************************)
patch_denied(actor) ==
  \A a \in ActiveAdminOf(actor) : a.role # "super_admin"

\* toUpdate applied to the stored row
patch_row(old, body) ==
  [ old EXCEPT
      !.role = IF body.role # Undefined THEN body.role ELSE @,
      !.custom_permissions =
         IF body.custom_permissions.kind # Undefined THEN body.custom_permissions ELSE @,
      !.status = IF body.status # Undefined THEN body.status ELSE @ ]

\* toUpdate is {}
patch_empty(body) ==
  /\ body.role = Undefined
  /\ body.custom_permissions.kind = Undefined
  /\ body.status = Undefined

\* the checks before the update; status 0: none of them answered
patch_checks(actor, target, body) ==
  IF actor = Anonymous
  THEN adminAccessRequiredError
  ELSE IF patch_denied(actor)
  THEN permissionDeniedError("users.assign_role")
  ELSE IF AdminById(target) = {}
  THEN Response(404, "Admin user not found")
  ELSE IF body.role # Undefined /\ body.role \notin AdminRole
  THEN Response(400, "Invalid role")
  ELSE IF body.status # Undefined /\ body.status \notin AdminStatus
  THEN Response(400, "Invalid status")
  ELSE Response(0, "")

\* the update and its response
patch_update(target, body, uid) ==
  LET old == CHOOSE a \in admin_users : a.id = target
      res == db_update(old, patch_row(old, body), uid)
  IN IF res.ok
     THEN Outcome(Response(200, ""), res)
     ELSE Outcome(Response(500, "Failed to update admin"), res)

\* for an empty toUpdate the data API may run no UPDATE and return no row,
\* which the handler answers as a failed update
PATCH(actor, target, body) ==
  /\ AuditRoom
  /\ LET checked == patch_checks(actor, target, body)
     IN IF checked.status # 0
        THEN Serve("PATCH", actor, body.role, Outcome(checked, NoWrite))
        ELSE \/ \E uid \in AuthUids : Serve("PATCH", actor, body.role, patch_update(target, body, uid))
             \/ /\ patch_empty(body)
                /\ Serve("PATCH", actor, body.role,
                         Outcome(Response(500, "Failed to update admin"), NoWrite))

(***************************************************************************)
(* DELETE /api/admin/roles/[id]                                            *)
(***************************************************************************)
delete_denied(actor) ==
  \A a \in ActiveAdminOf(actor) : a.role # "super_admin"

\* targetAdmin.user_id === userData.user.id
delete_is_self(targetAdmin, actor) == targetAdmin.user_id = actor

\* the checks before the delete; status 0: none of them answered
delete_checks(actor, target) ==
  IF actor = Anonymous
  THEN adminAccessRequiredError
  ELSE IF delete_denied(actor)
  THEN permissionDeniedError("users.assign_role")
  ELSE IF AdminById(target) = {}
  THEN Response(404, "Admin user not found")
  ELSE IF delete_is_self(CHOOSE a \in admin_users : a.id = target, actor)
  THEN Response(400, "Cannot remove your own admin access")
  ELSE Response(0, "")

\* the delete and its response
delete_remove(target, uid) ==
  LET old == CHOOSE a \in admin_users : a.id = target
      res == db_delete(old, uid)
  IN IF res.ok
     THEN Outcome(Response(200, ""), res)
     ELSE Outcome(Response(500, "Failed to remove admin"), res)

DELETE(actor, target) ==
  /\ AuditRoom
  /\ LET checked == delete_checks(actor, target)
     IN IF checked.status # 0
        THEN Serve("DELETE", actor, Undefined, Outcome(checked, NoWrite))
        ELSE \E uid \in AuthUids : Serve("DELETE", actor, Undefined, delete_remove(target, uid))

(***************************************************************************)
(* app/api/admin/audit-logs/route.ts                                       *)
(***************************************************************************)
\* the checks before the query: a caller with no active admin record (or no
\* bearer token) gets ADMIN_ACCESS_REQUIRED, one without audit.view gets
\* PERMISSION_DENIED; status 0: the checks passed
audit_logs_checks(actor) ==
  IF ActiveAdminOf(actor) = {} THEN adminAccessRequiredError
  ELSE LET adminData == CHOOSE a \in ActiveAdminOf(actor) : TRUE
           context == createAuthorizationContext(adminData)
       IN IF ~hasPermission(context, "audit.view")
          THEN permissionDeniedError("audit.view")
          ELSE Response(0, "")

\* the query parameter admin_id when it is absent
NoAdminId == 0

\* the filters .eq('admin_user_id', admin_id) and .eq('action', action), each
\* applied only when its query parameter is given: the positions in
\* role_audits of the rows that pass
audit_logs_filter(admin_id, action) ==
  { i \in DOMAIN role_audits :
      /\ admin_id = NoAdminId \/ role_audits[i].admin_user_id = admin_id
      /\ action = Undefined \/ role_audits[i].action = action }

\* .order('timestamp', { ascending: false }): ORDER BY timestamp DESC and no
\* other sort key, so rows with equal timestamps come in any order: every
\* sequence of the positions in S with no timestamp below a later one
audit_logs_order(S) ==
  { f \in [1 .. Cardinality(S) -> S] :
      /\ \A i, j \in DOMAIN f : i # j => f[i] # f[j]
      /\ \A i, j \in DOMAIN f : i < j =>
            role_audits[f[i]].timestamp >= role_audits[f[j]].timestamp }

\* .range(offset, offset + limit - 1) on the ordered rows
audit_logs_range(f, offset, limit) ==
  LET to == IF offset + limit < Len(f) THEN offset + limit ELSE Len(f)
  IN [ k \in 1 .. (IF to > offset THEN to - offset ELSE 0) |-> role_audits[f[offset + k]] ]

\* a listing: the query and NextResponse.json(...) (data, pagination.total)
Listing(actor, page, limit, admin_id, action, resp, data, total) ==
  [ actor |-> actor, page |-> page, limit |-> limit, admin_id |-> admin_id,
    action |-> action, status |-> resp.status, error |-> resp.error,
    permission |-> resp.permission, data |-> data, total |-> total ]

NoListing ==
  Listing(Anonymous, 0, 0, NoAdminId, Undefined, Response(0, ""), << >>, 0)

\* GET /api/admin/audit-logs?page=&limit=&admin_id=&action=
\* a range that starts past the last row is answered by the store with an
\* empty page or with an error, which the handler turns into 500
GetAuditLogs(actor, page, limit, admin_id, action) ==
  /\ LET checked == audit_logs_checks(actor)
         offset == (page - 1) * limit
         matching == audit_logs_filter(admin_id, action)
         count == Cardinality(matching)
     IN IF checked.status # 0
        THEN listing' = Listing(actor, page, limit, admin_id, action, checked, << >>, 0)
        ELSE \/ \E f \in audit_logs_order(matching) :
                  listing' = Listing(actor, page, limit, admin_id, action,
                                     Response(200, ""),
                                     audit_logs_range(f, offset, limit), count)
             \/ /\ offset > 0
                /\ offset >= count
                /\ listing' = Listing(actor, page, limit, admin_id, action,
                                      Response(500, "Failed to fetch audit logs"),
                                      << >>, 0)
  /\ UNCHANGED <<dbvars, envvars, last, libvars, authvars, racevars>>

(***************************************************************************)
(* middleware/authorization.ts                                             *)
(***************************************************************************)
\* requiredPermission?: PermissionKey | PermissionKey[]; absent is
\* PermUndefined, an array is PermArray(a)
OnePermission(p) == [kind |-> "string", arr |-> <<p>>]

\* what a collaborator does when the store is unreachable: auth.getUser or
\* the admin_users query returns an error, or throws
Faults == {"none", "user_error", "user_throw", "admin_error", "admin_throw"}

\* an absent context
NoContext ==
  [ user_id |-> Undefined, admin_id |-> 0, role |-> Undefined, permissions |-> << >>,
    is_admin |-> FALSE, is_super_admin |-> FALSE ]

\* an AuthorizationResult; a response of status 0 is an absent response
AuthorizationResult(authorized, response, context, userId, adminId) ==
  [ authorized |-> authorized, response |-> response, context |-> context,
    userId |-> userId, adminId |-> adminId ]

FirstOfOrDefault(permissions) ==
  IF permissions = << >> THEN "users.view" ELSE permissions[1]

\* permissions[0]
FirstOf(permissions) == IF permissions = << >> THEN Undefined ELSE permissions[1]

authorizeRequestAnyStatus(actor, fault, requiredPermission, requireAll) ==
  IF actor = Anonymous
  THEN AuthorizationResult(FALSE, adminAccessRequiredError, NoContext, Undefined, 0)
  ELSE IF fault = "user_throw"
  THEN AuthorizationResult(FALSE, Response(500, "Internal server error"), NoContext,
                           Undefined, 0)
  ELSE IF fault = "user_error"
  THEN AuthorizationResult(FALSE, adminAccessRequiredError, NoContext, Undefined, 0)
  ELSE IF fault = "admin_throw"
  THEN AuthorizationResult(FALSE, Response(500, "Internal server error"), NoContext,
                           Undefined, 0)
  ELSE IF fault = "admin_error" \/ {a \in admin_users : a.user_id = actor} = {}
  THEN AuthorizationResult(FALSE, adminAccessRequiredError, NoContext, actor, 0)
  ELSE LET adminData == CHOOSE a \in admin_users : a.user_id = actor
           context == createAuthorizationContext(adminData)
           permissions == requiredPermission.arr
           hasRequired ==
             IF requireAll
             THEN \A i \in DOMAIN permissions : hasPermission(context, permissions[i])
             ELSE \E i \in DOMAIN permissions : hasPermission(context, permissions[i])
       IN IF requiredPermission.kind # Undefined /\ ~hasRequired
          THEN AuthorizationResult(FALSE, permissionDeniedError(FirstOf(permissions)),
                                   context, actor, adminData.id)
          ELSE AuthorizationResult(TRUE, Response(0, ""), context, actor, adminData.id)

authorizeRequest(actor, fault, requiredPermission, requireAll) ==
  IF actor = Anonymous
  THEN AuthorizationResult(FALSE, adminAccessRequiredError, NoContext, Undefined, 0)
  ELSE IF fault = "user_throw"
  THEN AuthorizationResult(FALSE, Response(500, "Internal server error"), NoContext,
                           Undefined, 0)
  ELSE IF fault = "user_error"
  THEN AuthorizationResult(FALSE, adminAccessRequiredError, NoContext, Undefined, 0)
  ELSE IF fault = "admin_throw"
  THEN AuthorizationResult(FALSE, Response(500, "Internal server error"), NoContext,
                           Undefined, 0)
  ELSE IF fault = "admin_error" \/ ActiveAdminOf(actor) = {}
  THEN AuthorizationResult(FALSE, adminAccessRequiredError, NoContext, actor, 0)
  ELSE LET adminData == CHOOSE a \in ActiveAdminOf(actor) : TRUE
           context == createAuthorizationContext(adminData)
           permissions == requiredPermission.arr
           hasRequired ==
             IF requireAll
             THEN \A i \in DOMAIN permissions : hasPermission(context, permissions[i])
             ELSE \E i \in DOMAIN permissions : hasPermission(context, permissions[i])
       IN IF requiredPermission.kind # Undefined /\ ~hasRequired
          THEN AuthorizationResult(FALSE, permissionDeniedError(FirstOf(permissions)),
                                   context, actor, adminData.id)
          ELSE AuthorizationResult(TRUE, Response(0, ""), context, actor, adminData.id)

requireAdminAccess(actor, fault) == authorizeRequest(actor, fault, PermUndefined, TRUE)

requireSuperAdminAccessNoRoleCheck(actor, fault) ==
  authorizeRequest(actor, fault, PermUndefined, TRUE)

requireSuperAdminAccess(actor, fault) ==
  LET a == authorizeRequest(actor, fault, PermUndefined, TRUE)
  IN IF a.authorized /\ ~a.context.is_super_admin
     THEN AuthorizationResult(FALSE, permissionDeniedError(Undefined), a.context,
                              a.userId, a.adminId)
     ELSE a

requireAllPermissions(actor, fault, permissions) ==
  authorizeRequest(actor, fault, PermArray(permissions), TRUE)

requireAnyPermission(actor, fault, permissions) ==
  authorizeRequest(actor, fault, PermArray(permissions), FALSE)

\* a middleware call and what it returned
AuthCall(fn, actor, fault, requiredPermission, requireAll, result) ==
  [ fn |-> fn, actor |-> actor, fault |-> fault, required |-> requiredPermission,
    requireAll |-> requireAll, result |-> result ]

NoAuth ==
  AuthCall("none", Anonymous, "none", PermUndefined, TRUE,
           AuthorizationResult(FALSE, Response(0, ""), NoContext, Undefined, 0))

(***************************************************************************)
(* Environment                                                             *)
(***************************************************************************)
\* time passes
Tick ==
  /\ clock < MaxClock
  /\ clock' = clock + 1
  /\ UNCHANGED <<dbvars, audit_enabled, last, libvars, authvars, racevars, listvars>>

(***************************************************************************)
(* Specification of the role-management service                            *)
(***************************************************************************)
\* the bootstrap administrator and the audit row of its creation
SeedAdmin ==
  [ id |-> 1, user_id |-> "u1", role |-> "super_admin",
    custom_permissions |-> PermNull, status |-> "active", assigned_by |-> "u1" ]

SeedAudit ==
  [ id |-> 1, admin_user_id |-> 1, action |-> "created",
    old_role |-> Null, new_role |-> "super_admin",
    old_permissions |-> PermNull, new_permissions |-> PermNull,
    changed_by |-> "u1", reason |-> Null, timestamp |-> 0 ]

\* the requests that may be in flight together
Slots == {"r1", "r2"}

\* a request: pc is "idle" (not sent), "checked" (the handler has made its
\* reads and checks and is about to run its statement) or "done" (answered);
\* saw: the requests that were between their checks and their statement
\* when this one ran its statement
Request(pc, handler, actor, target, body, status, error, saw) ==
  [ pc |-> pc, handler |-> handler, actor |-> actor, target |-> target, body |-> body,
    status |-> status, error |-> error, saw |-> saw ]

IdleRequest == Request("idle", "none", Anonymous, 0, EmptyBody, 0, "", {})

\* no request is in flight
NoRequests == [r \in Slots |-> IdleRequest]

NoLibAdmin == NullRow
NoLibCtx == createAuthorizationContext(NoLibAdmin)
NoLibOut == [fn |-> "none", manager |-> Undefined, target |-> Undefined,
             result |-> FALSE]

Init ==
  /\ admin_users = {SeedAdmin}
  /\ role_audits = <<SeedAudit>>
  /\ next_id = 2
  /\ audit_seq = 1
  /\ audit_enabled \in BOOLEAN
  /\ clock = 0
  /\ last = NoResponse
  /\ lib_admin = NoLibAdmin
  /\ lib_ctx = NoLibCtx
  /\ lib_out = NoLibOut
  /\ auth = NoAuth
  /\ reqs = NoRequests
  /\ listing = NoListing

Next ==
  \/ \E actor \in Actors, body \in PostBodies : POST(actor, body)
  \/ \E actor \in Actors, target \in TargetIds, body \in PatchBodies :
        PATCH(actor, target, body)
  \/ \E actor \in Actors, target \in TargetIds : DELETE(actor, target)
  \/ Tick

Spec == Init /\ [][Next]_vars


(***************************************************************************)
(* Specification of the library lib/auth/roles.ts: calls on arguments      *)
(* drawn from bounded sets                                                 *)
(***************************************************************************)
ReportsOnly == PermArray(<<"reports.view">>)

LibAdmins ==
  [ id : {1}, user_id : {"u1"}, role : AdminRole,
    custom_permissions : {PermNull, PermUndefined, PermArray(<< >>), AssignOnly,
                          ReportsOnly},
    status : AdminStatus, assigned_by : {"u1"} ]

LibPermLists ==
  { << >>, <<"users.assign_role">>, <<"reports.view">>,
    <<"reports.view", "users.assign_role">> }
    \cup {ROLE_PERMISSIONS[r] : r \in AdminRole}

\* contexts a caller may pass, whether or not built from a record
LibContexts ==
  [ user_id : {"u1"}, admin_id : {1}, role : AdminRole \cup {Undefined},
    permissions : LibPermLists, is_admin : {TRUE}, is_super_admin : {FALSE} ]

LibOut(fn, manager, target, result) ==
  [fn |-> fn, manager |-> manager, target |-> target, result |-> result]

LibCreateAuthorizationContext ==
  /\ lib_ctx' = createAuthorizationContext(lib_admin)
  /\ lib_out' = LibOut("createAuthorizationContext", Undefined, Undefined, TRUE)
  /\ UNCHANGED <<lib_admin, dbvars, envvars, last, authvars, racevars, listvars>>

LibValidateRoleAssignment(target_role) ==
  /\ lib_out' = LibOut("validateRoleAssignment", Undefined, target_role,
                       validateRoleAssignment(lib_ctx, target_role))
  /\ UNCHANGED <<lib_admin, lib_ctx, dbvars, envvars, last, authvars, racevars, listvars>>

LibCanManageRole(manager_role, target_role) ==
  /\ lib_out' = LibOut("canManageRole", manager_role, target_role,
                       canManageRole(manager_role, target_role))
  /\ UNCHANGED <<lib_admin, lib_ctx, dbvars, envvars, last, authvars, racevars, listvars>>

LibHasPermission(permission) ==
  /\ lib_out' = LibOut("hasPermission", Undefined, permission,
                       hasPermission(lib_ctx, permission))
  /\ UNCHANGED <<lib_admin, lib_ctx, dbvars, envvars, last, authvars, racevars, listvars>>

LibInit ==
  /\ admin_users = {SeedAdmin}
  /\ role_audits = <<SeedAudit>>
  /\ next_id = 2
  /\ audit_seq = 1
  /\ audit_enabled = TRUE
  /\ clock = 0
  /\ last = NoResponse
  /\ \/ lib_admin \in LibAdmins /\ lib_ctx = NoLibCtx
     \/ lib_admin = NoLibAdmin /\ lib_ctx \in LibContexts
  /\ lib_out = NoLibOut
  /\ auth = NoAuth
  /\ reqs = NoRequests
  /\ listing = NoListing

LibNext ==
  \/ LibCreateAuthorizationContext
  \/ \E t \in AdminRole : LibValidateRoleAssignment(t)
  \/ \E m \in AdminRole, t \in AdminRole : LibCanManageRole(m, t)
  \/ \E p \in PermissionKey : LibHasPermission(p)

LibSpec == LibInit /\ [][LibNext]_vars

(***************************************************************************)
(* Specification of the middleware middleware/authorization.ts: calls by   *)
(* callers, under collaborator faults, against admin_users tables drawn    *)
(* from a bounded set                                                      *)
(***************************************************************************)
\* the admin record of u1, if any; u2 has none
AuthAdmins ==
  { a \in [ id : {1}, user_id : {"u1"}, role : AdminRole,
            custom_permissions : {PermNull, ReportsOnly},
            status : AdminStatus, assigned_by : {"u1"} ] :
      admin_users_check(a) }

AuthTables == {{}} \cup {{a} : a \in AuthAdmins}

\* the requiredPermission arguments
RequiredLists ==
  { << >>, <<"users.view", "users.delete">>, <<"reports.view", "users.assign_role">> }

RequiredInputs ==
  {PermUndefined, OnePermission("users.view")}
    \cup {PermArray(l) : l \in RequiredLists}

Called(call) ==
  /\ auth' = call
  /\ UNCHANGED <<dbvars, envvars, last, libvars, racevars, listvars>>

AuthorizeRequest(actor, fault, requiredPermission, requireAll) ==
  Called(AuthCall("authorizeRequest", actor, fault, requiredPermission, requireAll,
                  authorizeRequest(actor, fault, requiredPermission, requireAll)))

RequireAdminAccess(actor, fault) ==
  Called(AuthCall("requireAdminAccess", actor, fault, PermUndefined, TRUE,
                  requireAdminAccess(actor, fault)))

RequireSuperAdminAccess(actor, fault) ==
  Called(AuthCall("requireSuperAdminAccess", actor, fault, PermUndefined, TRUE,
                  requireSuperAdminAccess(actor, fault)))

RequireAllPermissions(actor, fault, permissions) ==
  Called(AuthCall("requireAllPermissions", actor, fault, PermArray(permissions), TRUE,
                  requireAllPermissions(actor, fault, permissions)))

RequireAnyPermission(actor, fault, permissions) ==
  Called(AuthCall("requireAnyPermission", actor, fault, PermArray(permissions), FALSE,
                  requireAnyPermission(actor, fault, permissions)))

AuthInit ==
  /\ admin_users \in AuthTables
  /\ role_audits = << >>
  /\ next_id = 2
  /\ audit_seq = 0
  /\ audit_enabled = TRUE
  /\ clock = 0
  /\ last = NoResponse
  /\ lib_admin = NoLibAdmin
  /\ lib_ctx = NoLibCtx
  /\ lib_out = NoLibOut
  /\ auth = NoAuth
  /\ reqs = NoRequests
  /\ listing = NoListing

AuthNext ==
  \/ \E actor \in Actors, fault \in Faults, required \in RequiredInputs,
        requireAll \in BOOLEAN :
        AuthorizeRequest(actor, fault, required, requireAll)
  \/ \E actor \in Actors, fault \in Faults : RequireAdminAccess(actor, fault)
  \/ \E actor \in Actors, fault \in Faults : RequireSuperAdminAccess(actor, fault)
  \/ \E actor \in Actors, fault \in Faults, permissions \in RequiredLists :
        RequireAllPermissions(actor, fault, permissions)
  \/ \E actor \in Actors, fault \in Faults, permissions \in RequiredLists :
        RequireAnyPermission(actor, fault, permissions)

AuthSpec == AuthInit /\ [][AuthNext]_vars

(***************************************************************************)
(* Specification of concurrent role-management requests: a handler's       *)
(* reads and checks, and the statement it then runs, are separate steps,   *)
(* so that the steps of two requests interleave                            *)
(***************************************************************************)
RacePostBodies ==
  { Body("u2", "moderator", PermUndefined, Undefined, Undefined),
    Body("u2", "support", PermUndefined, Undefined, Undefined),
    Body("u1", "analyst", PermUndefined, Undefined, Undefined),
    Body("u2", "custom", OffCatalog, Undefined, Undefined) }

RacePatchBodies ==
  { Body(Undefined, "moderator", PermUndefined, Undefined, Undefined),
    Body(Undefined, "support", PermUndefined, Undefined, Undefined),
    Body(Undefined, Undefined, PermUndefined, "suspended", Undefined) }

\* the requests between their checks and their statement, other than r
InFlight(r) == {q \in Slots \ {r} : reqs[q].pc = "checked"}

\* the handler's reads and checks: a request they reject is answered
Begin(r, handler, actor, target, body, checked) ==
  /\ reqs[r].pc = "idle"
  /\ reqs' = [reqs EXCEPT ![r] =
                IF checked.status # 0
                THEN Request("done", handler, actor, target, body,
                             checked.status, checked.error, {})
                ELSE Request("checked", handler, actor, target, body, 0, "", {})]
  /\ UNCHANGED <<dbvars, envvars, last, libvars, authvars, listvars>>

\* the handler's statement and its response
Commit(r, out) ==
  /\ admin_users' = out.admins
  /\ role_audits' = out.audits
  /\ audit_seq' = IF out.logged THEN audit_seq + 1 ELSE audit_seq
  /\ next_id' = IF out.inserted THEN next_id + 1 ELSE next_id
  /\ reqs' = [reqs EXCEPT ![r] =
                [@ EXCEPT !.pc = "done", !.status = out.resp.status,
                          !.error = out.resp.error, !.saw = InFlight(r)]]
  /\ UNCHANGED <<envvars, last, libvars, authvars, listvars>>

PostBegin(r, actor, body) ==
  Begin(r, "POST", actor, 0, body, post_checks(actor, body))

PostCommit(r) ==
  /\ reqs[r].pc = "checked"
  /\ reqs[r].handler = "POST"
  /\ \E uid \in AuthUids : Commit(r, post_insert(reqs[r].actor, reqs[r].body, uid))

PatchBegin(r, actor, target, body) ==
  Begin(r, "PATCH", actor, target, body, patch_checks(actor, target, body))

\* an UPDATE that matches no row returns none, which .single() reports as an
\* error
PatchCommit(r) ==
  /\ reqs[r].pc = "checked"
  /\ reqs[r].handler = "PATCH"
  /\ IF AdminById(reqs[r].target) = {}
     THEN Commit(r, Outcome(Response(500, "Failed to update admin"), NoWrite))
     ELSE \E uid \in AuthUids : Commit(r, patch_update(reqs[r].target, reqs[r].body, uid))

DeleteBegin(r, actor, target) ==
  Begin(r, "DELETE", actor, target, EmptyBody, delete_checks(actor, target))

\* a DELETE that matches no row is no error
DeleteCommit(r) ==
  /\ reqs[r].pc = "checked"
  /\ reqs[r].handler = "DELETE"
  /\ IF AdminById(reqs[r].target) = {}
     THEN Commit(r, Outcome(Response(200, ""), NoWrite))
     ELSE \E uid \in AuthUids : Commit(r, delete_remove(reqs[r].target, uid))

RaceInit ==
  /\ admin_users = {SeedAdmin}
  /\ role_audits = <<SeedAudit>>
  /\ next_id = 2
  /\ audit_seq = 1
  /\ audit_enabled \in BOOLEAN
  /\ clock = 0
  /\ last = NoResponse
  /\ lib_admin = NoLibAdmin
  /\ lib_ctx = NoLibCtx
  /\ lib_out = NoLibOut
  /\ auth = NoAuth
  /\ reqs = NoRequests
  /\ listing = NoListing

RaceNext ==
  \/ \E r \in Slots, actor \in Actors, body \in RacePostBodies : PostBegin(r, actor, body)
  \/ \E r \in Slots : PostCommit(r)
  \/ \E r \in Slots, actor \in Actors, target \in TargetIds, body \in RacePatchBodies :
        PatchBegin(r, actor, target, body)
  \/ \E r \in Slots : PatchCommit(r)
  \/ \E r \in Slots, actor \in Actors, target \in TargetIds : DeleteBegin(r, actor, target)
  \/ \E r \in Slots : DeleteCommit(r)

RaceSpec == RaceInit /\ [][RaceNext]_vars

(***************************************************************************)
(* Specification of the audit-log listing: the super administrator creates *)
(* and changes records, time passes, and callers list the audit log        *)
(***************************************************************************)
\* the page and limit query parameters
MaxPage == 2
MaxLimit == 2

ListPostBodies ==
  { Body("u2", "custom", AssignOnly, Undefined, "policy") }

ListPatchBodies ==
  { Body(Undefined, Undefined, PermUndefined, "suspended", "policy") }

ListNext ==
  \/ \E body \in ListPostBodies : POST("u1", body)
  \/ \E target \in TargetIds, body \in ListPatchBodies : PATCH("u1", target, body)
  \/ Tick
  \/ \E actor \in Actors, page \in 1 .. MaxPage, limit \in 1 .. MaxLimit,
        admin_id \in {NoAdminId} \cup TargetIds, action \in {Undefined, "updated"} :
        GetAuditLogs(actor, page, limit, admin_id, action)

ListSpec == Init /\ [][ListNext]_vars

(***************************************************************************)
(* Properties                                                              *)
(***************************************************************************)

\* C2 (does not hold of the code): a context built from a record whose status
\* is suspended or inactive has no permissions, is_admin = false and
\* is_super_admin = false, so hasPermission is false for every permission.
C2_InactiveNullifiesPower ==
  (lib_out.fn = "createAuthorizationContext" /\ lib_admin.status # "active")
    => /\ lib_ctx.permissions = << >>
       /\ ~lib_ctx.is_admin
       /\ ~lib_ctx.is_super_admin
       /\ \A p \in PermissionKey : ~hasPermission(lib_ctx, p)

\* C3: validateRoleAssignment(context, target) is true exactly when the
\* context's permissions contain users.assign_role and
\* canManageRole(context.role, target) is true; the call changes no state.
C3_ValidateIffPermissionAndManage ==
  lib_out.fn = "validateRoleAssignment"
    => lib_out.result =
         ( ("users.assign_role" \in {lib_ctx.permissions[i] : i \in DOMAIN lib_ctx.permissions})
           /\ canManageRole(lib_ctx.role, lib_out.target) )

C3_Witness ==
  /\ lib_out.fn = "validateRoleAssignment"
  /\ lib_out.result = TRUE
  /\ lib_ctx.role = "custom"
  /\ lib_out.target = "analyst"

\* the ranks as the specification states them
SpecRank ==
  [ super_admin |-> 100, moderator |-> 60, support |-> 40, custom |-> 30, analyst |-> 20 ]

Served(handler, actor) == last'.handler = handler /\ last'.actor = actor

Rejected(status) == status >= 400 /\ status < 500

\* body would take the record's status away from active, or change its role
Demotes(a, body) ==
  \/ a.status = "active" /\ body.status \in AdminStatus \ {"active"}
  \/ body.role \in AdminRole \ {a.role}

\* C1 (does not hold of the code): a PATCH or DELETE on /api/admin/roles/{id}
\* by an identity on its own admin record that would remove the record,
\* change its status away from active or change its role is rejected and
\* leaves admin_users and role_audits unchanged.
C1_SelfProtection ==
  [][ \A a \in admin_users :
        /\ \A body \in PatchBodies :
             ( /\ Served("PATCH", a.user_id)
               /\ Demotes(a, body)
               /\ PATCH(a.user_id, a.id, body) )
             => /\ Rejected(last'.status)
                /\ admin_users' = admin_users
                /\ role_audits' = role_audits
        /\ ( /\ Served("DELETE", a.user_id)
             /\ DELETE(a.user_id, a.id) )
           => /\ Rejected(last'.status)
              /\ admin_users' = admin_users
              /\ role_audits' = role_audits
    ]_vars

\* admin records the step created, changed or removed
WrittenRows == (admin_users' \ admin_users) \cup (admin_users \ admin_users')

\* C5 (does not hold of the code): every write to an admin record by POST,
\* PATCH or DELETE follows, within the request, a validateRoleAssignment call
\* on the actor's context and the target role that returned true, and no
\* write occurs where that check would return false.
C5_WriteOnlyAfterValidate ==
  [][ (WrittenRows # {} /\ last'.handler \in {"POST", "PATCH", "DELETE"})
        => /\ last'.validated
           /\ \A w \in WrittenRows :
                \E c \in ActiveAdminOf(last'.actor) :
                   validateRoleAssignment(createAuthorizationContext(c), w.role)
    ]_vars

\* the actor may not assign role: it has no active admin record, or
\* validateRoleAssignment on its context refuses
NotPermitted(actor, role) ==
  \A c \in ActiveAdminOf(actor) :
     ~validateRoleAssignment(createAuthorizationContext(c), role)

\* C6: a role assignment (POST, or PATCH with a role) by an authenticated
\* actor who is not permitted to make it is answered 403 PERMISSION_DENIED
\* and leaves admin_users and role_audits as they were.
C6_DeniedAssignmentWritesNothing ==
  [][ ( /\ last'.handler \in {"POST", "PATCH"}
        /\ last'.actor \in Users
        /\ last'.role # Undefined
        /\ NotPermitted(last'.actor, last'.role)
        /\ \/ \E body \in PostBodies :
                body.role = last'.role /\ POST(last'.actor, body)
           \/ \E target \in TargetIds, body \in PatchBodies :
                body.role = last'.role /\ PATCH(last'.actor, target, body) )
      => /\ last'.status = 403
         /\ last'.error = "PERMISSION_DENIED"
         /\ admin_users' = admin_users
         /\ role_audits' = role_audits
    ]_vars

\* an active moderator's POST was denied
C6_Witness ==
  /\ last.handler = "POST"
  /\ last.status = 403
  /\ last.error = "PERMISSION_DENIED"
  /\ \E a \in admin_users :
        a.user_id = last.actor /\ a.role = "moderator" /\ a.status = "active"


\* the row of admin record id, if any
RowOf(rows, id) == {a \in rows : a.id = id}

\* the step created, changed or removed admin record id
RowChanged(id) == RowOf(admin_users', id) # RowOf(admin_users, id)

\* the audit rows of record id, in insertion order
RECURSIVE TrailOf(_, _)
TrailOf(audits, id) ==
  IF audits = << >> THEN << >>
  ELSE IF Head(audits).admin_user_id = id
       THEN <<Head(audits)>> \o TrailOf(Tail(audits), id)
       ELSE TrailOf(Tail(audits), id)

\* each entry starts from the role and permissions the entry before it left
Chained(trail) ==
  \A i \in 1 .. Len(trail) - 1 :
     /\ trail[i + 1].old_role = trail[i].new_role
     /\ trail[i + 1].old_permissions = trail[i].new_permissions
     /\ trail[i].timestamp <= trail[i + 1].timestamp

\* C7 (does not hold of the code): every successful mutating operation on an
\* admin record adds exactly one audit entry for it, so N operations leave N
\* entries, in timestamp order, each starting from the role and permissions
\* the previous entry ended with.
C7_AuditCompleteness ==
  [][ \A id \in 1 .. MaxId :
        RowChanged(id)
          => /\ Len(TrailOf(role_audits', id)) = Len(TrailOf(role_audits, id)) + 1
             /\ Chained(TrailOf(role_audits', id))
    ]_vars

\* the step appended an audit entry for record id
Audited(id) ==
  /\ Len(role_audits') > 0
  /\ role_audits'[Len(role_audits')].id = audit_seq + 1
  /\ role_audits'[Len(role_audits')].admin_user_id = id

C9_AuditAppendOnly ==
  [][ \A i \in DOMAIN role_audits :
        \E j \in DOMAIN role_audits' : role_audits'[j] = role_audits[i] ]_vars

\* C10 (does not hold of the code): after a successful DELETE of an admin
\* record the audit log holds an entry for that record id with action
\* 'deleted' and old_role the role the record had.
C10_DeleteIsAudited ==
  [][ \A a \in admin_users :
        (last'.handler = "DELETE" /\ last'.status = 200 /\ a \notin admin_users')
          => \E i \in DOMAIN role_audits' :
                /\ role_audits'[i].admin_user_id = a.id
                /\ role_audits'[i].action = "deleted"
                /\ role_audits'[i].old_role = a.role
    ]_vars

\* the audit entry a step appended
NewEntry == role_audits'[Len(role_audits')]

\* the action tag as the specification infers it for an update
SpecUpdateAction(old, new) ==
  IF /\ new.role = old.role
     /\ new.custom_permissions = old.custom_permissions
     /\ old.status = "active" /\ new.status = "suspended"
  THEN "suspended"
  ELSE IF /\ new.role = old.role
          /\ new.custom_permissions = old.custom_permissions
          /\ old.status = "suspended" /\ new.status = "active"
  THEN "reactivated"
  ELSE "updated"

\* C11 (does not hold of the code): the action tag of an audit entry is
\* 'created' on insert and 'deleted' on removal; on update it is 'suspended'
\* or 'reactivated' only when the sole change is a status transition between
\* active and suspended, and 'updated' for every other update.
C11_ActionInference ==
  [][ \A id \in 1 .. MaxId :
        Audited(id)
          => /\ RowOf(admin_users, id) = {} => NewEntry.action = "created"
             /\ RowOf(admin_users', id) = {} => NewEntry.action = "deleted"
             /\ \A old \in RowOf(admin_users, id), new \in RowOf(admin_users', id) :
                   NewEntry.action = SpecUpdateAction(old, new)
    ]_vars

\* C12 (does not hold of the code): the changed_by of every audit entry
\* written for a POST, PATCH or DELETE request is the bearer-token user of
\* that request.
C12_ChangedByIsActor ==
  [][ \A id \in 1 .. MaxId :
        (Audited(id) /\ last'.handler \in {"POST", "PATCH", "DELETE"})
          => NewEntry.changed_by = last'.actor
    ]_vars

\* C13 (does not hold of the code): when a POST or PATCH body carries a
\* reason, the audit entry written for that request stores that reason.
C13_ReasonStored ==
  [][ \A id \in 1 .. MaxId :
        \A body \in {b \in PostBodies \cup PatchBodies : b.reason # Undefined} :
           ( /\ Audited(id)
             /\ \/ POST(last'.actor, body)
                \/ PATCH(last'.actor, id, body) )
           => NewEntry.reason = body.reason
    ]_vars

\* C15 (does not hold of the code): on the role-management endpoints a
\* request of an authenticated identity that has no active admin record gets
\* the response (status and error code) a request without a valid credential
\* gets.
C15_DeniedAlike ==
  [][ /\ \A body \in PostBodies :
           ( /\ last'.actor \in Users
             /\ ActiveAdminOf(last'.actor) = {}
             /\ POST(last'.actor, body) )
           => /\ last'.status = post_checks(Anonymous, body).status
              /\ last'.error = post_checks(Anonymous, body).error
      /\ \A target \in TargetIds :
           ( /\ last'.actor \in Users
             /\ ActiveAdminOf(last'.actor) = {}
             /\ DELETE(last'.actor, target) )
           => /\ last'.status = delete_checks(Anonymous, target).status
              /\ last'.error = delete_checks(Anonymous, target).error
    ]_vars

(***************************************************************************)
(* Properties of the middleware                                            *)
(***************************************************************************)
\* the permission keys of a list
KeysOf(permissions) == {permissions[i] : i \in DOMAIN permissions}

\* the active admin records of the caller of the last middleware call
CallerRecords == {a \in admin_users : a.user_id = auth.actor /\ a.status = "active"}

\* the permissions of a record's context
GrantedTo(a) == KeysOf(createAuthorizationContext(a).permissions)

\* the caller holds what the call requires
Satisfies(a) ==
  \/ auth.required.kind = Undefined
  \/ auth.requireAll /\ KeysOf(auth.required.arr) \subseteq GrantedTo(a)
  \/ ~auth.requireAll /\ KeysOf(auth.required.arr) \cap GrantedTo(a) # {}

AuthorizeCalls == {"authorizeRequest", "requireAdminAccess", "requireAllPermissions",
                   "requireAnyPermission"}

\* C14: authorizeRequest(request, requiredPermission, requireAll) returns
\* authorized = true exactly when the bearer token resolves to a user, that
\* user has an admin record with status active, and no permission was
\* specified, or (requireAll) every required permission is in the context's
\* permissions, or (not requireAll) at least one is; a caller whose record is
\* inactive or suspended is never authorized.
C14_AuthorizedIff ==
  auth.fn \in AuthorizeCalls
    => /\ auth.fault = "none"
            => auth.result.authorized =
                 (auth.actor \in Users /\ \E a \in CallerRecords : Satisfies(a))
       /\ auth.result.authorized
            => /\ auth.actor \in Users
               /\ \E a \in CallerRecords : Satisfies(a)
               /\ \A a \in admin_users : a.user_id = auth.actor => a.status = "active"

\* an active custom admin passed an any-of check on one of two permissions
C14_Witness ==
  /\ auth.fn \in AuthorizeCalls
  /\ auth.result.authorized
  /\ ~auth.requireAll
  /\ Len(auth.required.arr) = 2
  /\ \E a \in CallerRecords :
        a.role = "custom" /\ ~(KeysOf(auth.required.arr) \subseteq GrantedTo(a))

\* C16 (does not hold of the code): when authorizeRequest denies an active
\* admin for insufficient rights, the permission-denied response names a
\* permission key that is required and that the caller lacks.
C16_NamesMissingPermission ==
  ( /\ auth.fn \in AuthorizeCalls
    /\ auth.required.arr # << >>
    /\ auth.result.response.error = "PERMISSION_DENIED" )
    => /\ auth.result.response.permission \in KeysOf(auth.required.arr)
       /\ \A a \in CallerRecords : auth.result.response.permission \notin GrantedTo(a)

\* the lookup that the fault of the last call hit was made
FaultHit ==
  /\ auth.actor \in Users
  /\ auth.fault # "none"

\* C17 (does not hold of the code): a collaborator fault during authorization
\* (identity lookup or admin-record lookup failing, by a returned error or by
\* an exception) is reported as an internal error (500), never as 403.
C17_FaultIsInternalError ==
  (auth.fn # "none" /\ FaultHit)
    => /\ ~auth.result.authorized
       /\ auth.result.response.status = 500

\* C18: requireSuperAdminAccess returns authorized = true exactly when the
\* caller is authenticated and has an active admin record whose role is
\* super_admin; an active admin of another role gets a permission-denied
\* result, and the result of a failed base check is passed through unchanged.
C18_SuperAdminOnly ==
  auth.fn = "requireSuperAdminAccess"
    => LET base == authorizeRequest(auth.actor, auth.fault, PermUndefined, TRUE)
       IN /\ auth.fault = "none"
               => auth.result.authorized =
                    (auth.actor \in Users /\ \E a \in CallerRecords : a.role = "super_admin")
          /\ auth.result.authorized
               => \E a \in CallerRecords : a.role = "super_admin"
          /\ (auth.fault = "none" /\ \E a \in CallerRecords : a.role # "super_admin")
               => /\ ~auth.result.authorized
                  /\ auth.result.response.status = 403
                  /\ auth.result.response.error = "PERMISSION_DENIED"
          /\ ~base.authorized => auth.result = base

\* an active moderator was denied by requireSuperAdminAccess
C18_Witness ==
  /\ auth.fn = "requireSuperAdminAccess"
  /\ auth.fault = "none"
  /\ ~auth.result.authorized
  /\ auth.result.response.error = "PERMISSION_DENIED"
  /\ \E a \in CallerRecords : a.role = "moderator"

(***************************************************************************)
(* Properties of concurrent requests                                       *)
(***************************************************************************)
\* C19: in every reachable state, under any interleaving of concurrent POST
\* requests (also two requests for the same user_id that both pass the
\* 'already admin' check before either inserts), each identity has at most
\* one admin record.
C19_IdentityUnique ==
  \A a \in admin_users, b \in admin_users : a.user_id = b.user_id => a.id = b.id

\* two POSTs for the same user passed their checks together; the first
\* insert was answered 201 and the second failed
C19_Witness ==
  \E r \in Slots, q \in Slots :
     /\ reqs[r].pc = "done" /\ reqs[r].handler = "POST" /\ reqs[r].status = 201
     /\ reqs[q].pc = "done" /\ reqs[q].handler = "POST" /\ reqs[q].status = 500
     /\ reqs[r].body.user_id = reqs[q].body.user_id
     /\ q \in reqs[r].saw
     /\ Cardinality({a \in admin_users : a.user_id = reqs[r].body.user_id}) = 1

\* r and q set different roles on the same record, each having made its
\* reads before the other one's statement ran
ConcurrentRoleChanges(r, q) ==
  /\ r # q
  /\ reqs[r].pc = "done" /\ reqs[r].handler = "PATCH"
  /\ reqs[q].pc = "done" /\ reqs[q].handler = "PATCH"
  /\ reqs[r].target = reqs[q].target
  /\ reqs[r].body.role # Undefined /\ reqs[q].body.role # Undefined
  /\ reqs[r].body.role # reqs[q].body.role
  /\ q \in reqs[r].saw

\* C20 (does not hold of the code): when two requests concurrently change
\* the role of the same admin record, exactly one succeeds and the other gets
\* a conflict error; the record's audit trail then holds one entry for each
\* change applied, in the order of application.
C20_ConflictOnConcurrentChange ==
  \A r \in Slots, q \in Slots :
     ConcurrentRoleChanges(r, q)
       => /\ \/ reqs[r].status = 200 /\ reqs[q].status = 409
             \/ reqs[r].status = 409 /\ reqs[q].status = 200
          /\ Len(TrailOf(role_audits, reqs[r].target)) >= 2
          /\ Chained(TrailOf(role_audits, reqs[r].target))

(***************************************************************************)
(* Properties of the permission matrix and of permission resolution        *)
(***************************************************************************)
BuiltInRoles == {"super_admin", "moderator", "support", "analyst"}

\* the last library call was made on the context built from lib_admin
OnBuiltContext(fn) ==
  /\ lib_out.fn = fn
  /\ lib_admin # NoLibAdmin
  /\ lib_ctx = createAuthorizationContext(lib_admin)

\* C21: for a record with a non-custom role the context's permissions are
\* ROLE_PERMISSIONS[role] whatever custom_permissions it stores; for role
\* custom they are exactly the stored custom_permissions, a null or absent
\* custom_permissions giving the empty list; getRolePermissions('custom')
\* without an explicit set is empty.
C21_EffectivePermissions ==
  /\ OnBuiltContext("createAuthorizationContext")
       => /\ lib_admin.role # "custom"
               => lib_ctx.permissions = ROLE_PERMISSIONS[lib_admin.role]
          /\ (lib_admin.role = "custom" /\ lib_admin.custom_permissions.kind = "array")
               => lib_ctx.permissions = lib_admin.custom_permissions.arr
          /\ (lib_admin.role = "custom" /\ lib_admin.custom_permissions.kind # "array")
               => lib_ctx.permissions = << >>
  /\ getRolePermissions("custom", PermUndefined) = << >>
  /\ getRolePermissions("custom", PermNull) = << >>

\* a moderator record that stores custom_permissions got the moderator's
\* permissions
C21_Witness ==
  /\ OnBuiltContext("createAuthorizationContext")
  /\ lib_admin.role = "moderator"
  /\ lib_admin.custom_permissions = AssignOnly
  /\ ~hasPermission(lib_ctx, "users.assign_role")
  /\ hasPermission(lib_ctx, "listings.publish")

\* C23: the union of ROLE_PERMISSIONS over the four built-in roles is the
\* whole of PermissionKey, and each built-in role's permission list is
\* non-empty.
C23_MatrixComplete ==
  /\ UNION {KeysOf(ROLE_PERMISSIONS[r]) : r \in BuiltInRoles} = PermissionKey
  /\ \A r \in BuiltInRoles : ROLE_PERMISSIONS[r] # << >>
  /\ (OnBuiltContext("hasPermission") /\ lib_admin.role \in BuiltInRoles)
       => \E r \in BuiltInRoles : Includes(ROLE_PERMISSIONS[r], lib_out.target)
  /\ (OnBuiltContext("hasPermission") /\ lib_admin.role = "super_admin")
       => lib_out.result = TRUE

\* a permission that only super_admin holds was looked up on a super_admin
C23_Witness ==
  /\ OnBuiltContext("hasPermission")
  /\ lib_admin.role = "super_admin"
  /\ lib_out.target = "users.assign_role"
  /\ lib_out.result = TRUE

\* the Permission Quick Lookup table: the roles listed for a permission
DocLookup ==
  [ p \in { "users.view", "users.delete", "listings.delete", "disputes.resolve",
            "reports.generate", "audit.view", "users.assign_role" } |->
      CASE p = "users.view" -> {"moderator", "analyst"}
        [] p = "users.delete" -> {"super_admin", "moderator"}
        [] p = "listings.delete" -> {"super_admin", "moderator"}
        [] p = "disputes.resolve" -> {"super_admin", "moderator", "support"}
        [] p = "reports.generate" -> {"super_admin", "analyst"}
        [] p = "audit.view" -> BuiltInRoles
        [] p = "users.assign_role" -> {"super_admin"} ]

\* C25 (does not hold of the code): every role the Permission Quick Lookup
\* table lists for a permission holds that permission, and
\* users.assign_role is held by super_admin only.
C25_LookupTableMatches ==
  (OnBuiltContext("hasPermission") /\ lib_admin.role \in BuiltInRoles)
    => /\ ( /\ lib_out.target \in DOMAIN DocLookup
            /\ lib_admin.role \in DocLookup[lib_out.target] )
          => lib_out.result = TRUE
       /\ (lib_out.target = "users.assign_role" /\ lib_admin.role # "super_admin")
          => lib_out.result = FALSE

C30_EmptyPermissionLists ==
  /\ hasAllPermissions(auth.result.context, << >>)
  /\ ~hasAnyPermission(auth.result.context, << >>)
  /\ ( /\ auth.fn \in AuthorizeCalls
       /\ auth.fault = "none"
       /\ auth.required = PermArray(<< >>)
       /\ CallerRecords # {} )
     => IF auth.requireAll
        THEN auth.result.authorized
        ELSE /\ ~auth.result.authorized
             /\ auth.result.response.status = 403
             /\ auth.result.response.error = "PERMISSION_DENIED"
             /\ auth.result.response.permission = Undefined

\* requireAnyPermission(request, []) denied an active super_admin
C30_Witness ==
  /\ auth.fn = "requireAnyPermission"
  /\ auth.fault = "none"
  /\ auth.required = PermArray(<< >>)
  /\ \E a \in CallerRecords : a.role = "super_admin"
  /\ ~auth.result.authorized
  /\ auth.result.response.error = "PERMISSION_DENIED"

(***************************************************************************)
(* Properties of the stored admin records                                  *)
(***************************************************************************)
\* C22: after any sequence of POST and PATCH requests every stored admin
\* record with role custom has an explicit (non-null) custom_permissions; a
\* request that would create or leave a custom record without one changes
\* nothing: the tables change only in a step that is answered 200 or 201,
\* and no step leaves such a record.
C22_CustomHasExplicitSet ==
  [][ /\ \A a \in admin_users' :
           a.role = "custom" => a.custom_permissions.kind = "array"
      /\ (admin_users' # admin_users \/ role_audits' # role_audits)
           => last'.status \in {200, 201}
    ]_vars

\* a super_admin's POST of role custom without custom_permissions failed at
\* the table's CHECK
C22_Witness ==
  /\ ~audit_enabled
  /\ last.handler = "POST"
  /\ last.role = "custom"
  /\ last.status = 500
  /\ \A a \in admin_users : a.role # "custom"

\* C26 (does not hold of the code): after any sequence of POST, PATCH and
\* DELETE requests at least one active super_admin record exists.
C26_NoLockout ==
  \E a \in admin_users : a.role = "super_admin" /\ a.status = "active"

\* C28 (does not hold of the code): every permission in a stored
\* custom_permissions list, and so in any context built from a stored record,
\* is a member of PermissionKey.
C28_CatalogClosure ==
  \A a \in admin_users :
     /\ KeysOf(a.custom_permissions.arr) \subseteq PermissionKey
     /\ KeysOf(createAuthorizationContext(a).permissions) \subseteq PermissionKey

\* the actor's own record, as it is now, authorizes a role-management write
HoldsAuthority(actor) ==
  \E a \in admin_users :
     a.user_id = actor /\ a.status = "active" /\ a.role = "super_admin"

\* C27 (does not hold of the code): under any interleaving of
\* role-management requests, no create, update or delete of an admin record
\* is committed for an actor whose own record is, at the moment of the
\* write, missing, not active or not super_admin.
C27_NoWriteOnStaleAuthority ==
  [][ \A r \in Slots :
        ( /\ reqs[r].pc = "checked"
          /\ reqs'[r].pc = "done"
          /\ admin_users' # admin_users )
        => HoldsAuthority(reqs[r].actor)
    ]_vars

(***************************************************************************)
(* Properties of the audit-log listing                                     *)
(***************************************************************************)
\* the entries of one admin record on the page served last, in page order
PageOf(id) == { <<i, j>> \in (DOMAIN listing.data) \X (DOMAIN listing.data) :
                  /\ i < j
                  /\ listing.data[i].admin_user_id = id
                  /\ listing.data[j].admin_user_id = id }

\* C24: on every page the audit-log listing serves, the entries of one admin
\* record come in timestamp order (newest first, as the listing sorts), and
\* entries of the record with equal timestamps come in insertion order
C24_ListingOrder ==
  listing.status = 200 =>
    \A id \in TargetIds : \A p \in PageOf(id) :
      /\ listing.data[p[1]].timestamp >= listing.data[p[2]].timestamp
      /\ listing.data[p[1]].timestamp = listing.data[p[2]].timestamp
           => listing.data[p[1]].id < listing.data[p[2]].id

====
